---- MODULE Spec2Model ----
(***************************************************************************)
(* Model of protonvpn_nm_lib:                                              *)
(*   core/connection/connection.py  - Connection (setup / connect /        *)
(*                                     disconnect and the actuator calls   *)
(*                                     around them)                        *)
(*   core/dbus/dbus_wrapper.py      - DbusWrapper (discovery scans over    *)
(*                                     NetworkManager's object snapshot)   *)
(*                                                                         *)
(* Spec       : the lifecycle controller, one external call per step.      *)
(* SpecIndex  : the discovery functions, applied to bounded snapshots.     *)
(***************************************************************************)
EXTENDS Integers, Sequences, FiniteSets, TLC

VARIABLES
    \* ---- Connection (connection.py) ----
    lp_enabled,     \* self.ipv6_lp.enable_ipv6_leak_protection
    ks_setting,     \* self.protonvpn_user.settings.killswitch
    ipv6_on,        \* IPv6 leak protection actuator: rules installed
    killswitch,     \* kill switch actuator: [mode, ip]
    daemon,         \* reconnect daemon running
    profile,        \* the VPN profile created by vpn_add_connection exists
    active,         \* the VPN profile is activated
    pc,             \* [op, i]: the operation in progress and its next step
    entry_ip,       \* server_entry_ip of the setup in progress
    calls,          \* calls made by the current / last operation, in order
    outcome,        \* what the last operation returned or raised
    cycle,          \* progress of a clean setup -> connect -> disconnect cycle
    before,         \* actuators, daemon and profile when the operation began
    \* ---- DbusWrapper (dbus_wrapper.py) ----
    conns,          \* snapshot of ListConnections(): profile settings
    actives,        \* snapshot of ActiveConnections: property bags
    devices,        \* snapshot of AllDevices: AvailableConnections of each
    call,           \* the discovery call under way and its arguments
    ret,            \* what that call returned or raised
    prev            \* what the same call returned the time before

lvars == <<lp_enabled, ks_setting, ipv6_on, killswitch, daemon, profile,
           active, pc, entry_ip, calls, outcome, cycle, before>>
ivars == <<conns, actives, devices, call, ret, prev>>
vars  == <<lp_enabled, ks_setting, ipv6_on, killswitch, daemon, profile,
           active, pc, entry_ip, calls, outcome, cycle, before,
           conns, actives, devices, call, ret, prev>>

None == "none"

(***************************************************************************)
(*                          Connection                                     *)
(***************************************************************************)

\* KillswitchStatusEnum
KS_DISABLED == "disabled"
KS_SOFT     == "soft"
KS_HARD     == "hard"
KillswitchStatusEnum == {KS_DISABLED, KS_SOFT, KS_HARD}

\* server_data["server_entry_ip"] of the servers a caller may set up
EntryIps == {"ip1", "ip2"}

\* What the adapter's vpn_remove_connection may raise.
RemovalErrors ==
    {"ConnectionNotFound", "RemoveConnectionFinishError",
     "StopConnectionFinishError", "ProtonVPNException", "DBusException",
     "ValueError"}

\* isinstance(e, cls) for the classes the except clauses of disconnect name:
\* every raised kind is an instance of its own class and of Exception.
IsInstance(e, cls) == e = cls \/ cls = "Exception"

KsOff == [mode |-> "off", ip |-> None]

\* IPv6LeakProtection.manage(action): the two-state actuator
Ipv6Manage(action) == action = "ENABLE"

\* KillSwitch.manage(action, server_ip)
KsManage(action, ip) ==
    IF action = "PRE_CONNECTION"
    THEN [mode |-> "pre_connection", ip |-> ip]
    ELSE KsOff

Call(fn, action, ip, res) ==
    [fn |-> fn, action |-> action, ip |-> ip, res |-> res]

\* pc.i = 0: no operation in progress (pc.op is then the last one run).
IsIdle == pc.i = 0

\* The statements of setup_connection after the request is built:
\* _pre_setup_connection (leak protection, kill switch), then the adapter.
SetupStepsAddFirst == <<"add", "pre_lp", "pre_ks">>
SetupSteps == <<"pre_lp", "pre_ks", "add">>

\* The statements of disconnect: the removal, then _post_disconnect.
DisconnectStepsPostFirst == <<"stop_daemon", "lp_disable", "ks_disable", "remove">>
DisconnectStepsLpFirst == <<"remove", "lp_disable", "stop_daemon", "ks_disable">>
DisconnectSteps == <<"remove", "stop_daemon", "lp_disable", "ks_disable">>

Steps(op) == IF op = "setup" THEN SetupSteps ELSE DisconnectSteps

\* The step the operation in progress is about to execute.
Step == IF IsIdle THEN None ELSE Steps(pc.op)[pc.i]

\* cycle after operation o ended with result r
CycleAfter(o, r) ==
    IF r # "ok" THEN 0
    ELSE IF o = "setup" THEN 1
    ELSE IF o = "connect" /\ cycle = 1 THEN 2
    ELSE IF o = "disconnect" /\ cycle = 2 THEN 3
    ELSE 0

\* The statement at pc returned normally: go on to the next one, or return.
Proceed ==
    IF pc.i < Len(Steps(pc.op))
    THEN /\ pc' = [pc EXCEPT !.i = pc.i + 1]
         /\ UNCHANGED <<outcome, cycle>>
    ELSE /\ pc' = [pc EXCEPT !.i = 0]
         /\ outcome' = "ok"
         /\ cycle' = CycleAfter(pc.op, "ok")

\* The statement at pc raised e and nothing catches it.
Raise(e) ==
    /\ pc' = [pc EXCEPT !.i = 0]
    /\ outcome' = e
    /\ cycle' = CycleAfter(pc.op, e)

Snapshot == [ipv6_on |-> ipv6_on, killswitch |-> killswitch,
             daemon |-> daemon, profile |-> profile]

settings == <<lp_enabled, ks_setting>>

\* ---- setup_connection -------------------------------------------------

\* Lines 32-50: read the server descriptor and build the request.
BeginSetup(ip) ==
    /\ IsIdle
    /\ pc' = [op |-> "setup", i |-> 1]
    /\ entry_ip' = ip
    /\ calls' = <<>>
    /\ outcome' = "running"
    /\ before' = Snapshot
    /\ UNCHANGED <<settings, ipv6_on, killswitch, daemon, profile, active, cycle>>
    /\ UNCHANGED ivars

\* An exception of _pre_setup_connection is not caught by setup_connection.
PreSetupFailsSwallowed(e) == Proceed
PreSetupFails(e) == Raise(e)

\* _pre_setup_connection: if self.ipv6_lp.enable_ipv6_leak_protection:
\*                            self.ipv6_lp.manage(ENABLE)
PreSetupLp ==
    /\ Step = "pre_lp"
    /\ IF lp_enabled
       THEN \/ /\ ipv6_on' = Ipv6Manage("ENABLE")
               /\ calls' = Append(calls, Call("ipv6_lp.manage", "ENABLE", None, "ok"))
               /\ Proceed
            \/ /\ calls' = Append(calls, Call("ipv6_lp.manage", "ENABLE", None, "raise"))
               /\ PreSetupFails("LeakProtectionError")
               /\ UNCHANGED ipv6_on
       ELSE /\ Proceed
            /\ UNCHANGED <<ipv6_on, calls>>
    /\ UNCHANGED <<settings, killswitch, daemon, profile, active, entry_ip, before>>
    /\ UNCHANGED ivars

\* The kill-switch mode in which pre-setup engages the kill switch.
PreSetupKsModeSoft == KS_SOFT
PreSetupKsModeAlways == ks_setting
PreSetupKsMode == KS_HARD

\* _pre_setup_connection: if settings.killswitch == HARD:
\*                            self.killswitch.manage(PRE_CONNECTION, server_ip)
PreSetupKs ==
    /\ Step = "pre_ks"
    /\ IF ks_setting = PreSetupKsMode
       THEN \/ /\ killswitch' = KsManage("PRE_CONNECTION", entry_ip)
               /\ calls' = Append(calls, Call("killswitch.manage", "PRE_CONNECTION", entry_ip, "ok"))
               /\ Proceed
            \/ /\ calls' = Append(calls, Call("killswitch.manage", "PRE_CONNECTION", entry_ip, "raise"))
               /\ PreSetupFails("KillSwitchError")
               /\ UNCHANGED killswitch
       ELSE /\ Proceed
            /\ UNCHANGED <<killswitch, calls>>
    /\ UNCHANGED <<settings, ipv6_on, daemon, profile, active, entry_ip, before>>
    /\ UNCHANGED ivars

\* self.adapter.vpn_add_connection(**kwargs)
SetupAdd ==
    /\ Step = "add"
    /\ \/ /\ profile' = TRUE
          /\ calls' = Append(calls, Call("vpn_add_connection", None, None, "ok"))
          /\ Proceed
       \/ /\ calls' = Append(calls, Call("vpn_add_connection", None, None, "raise"))
          /\ Raise("AddConnectionError")
          /\ UNCHANGED profile
    /\ UNCHANGED <<settings, ipv6_on, killswitch, daemon, active, entry_ip, before>>
    /\ UNCHANGED ivars

\* ---- connect ----------------------------------------------------------

\* connect that also re-applies the leak protection
ConnectEnablingLp ==
    /\ IsIdle
    /\ pc' = [op |-> "connect", i |-> 0]
    /\ before' = Snapshot
    /\ ipv6_on' = Ipv6Manage("ENABLE")
    /\ \/ /\ profile
          /\ active' = TRUE
          /\ calls' = <<Call("ipv6_lp.manage", "ENABLE", None, "ok"),
                        Call("vpn_connect", None, None, "ok")>>
          /\ outcome' = "ok"
          /\ cycle' = CycleAfter("connect", "ok")
       \/ /\ calls' = <<Call("ipv6_lp.manage", "ENABLE", None, "ok"),
                        Call("vpn_connect", None, None, "raise")>>
          /\ outcome' = "ConnectError"
          /\ cycle' = CycleAfter("connect", "ConnectError")
          /\ UNCHANGED active
    /\ UNCHANGED <<settings, killswitch, daemon, profile, entry_ip>>
    /\ UNCHANGED ivars

\* self.adapter.vpn_connect()
Connect ==
    /\ IsIdle
    /\ pc' = [op |-> "connect", i |-> 0]
    /\ before' = Snapshot
    /\ \/ /\ profile
          /\ active' = TRUE
          /\ calls' = <<Call("vpn_connect", None, None, "ok")>>
          /\ outcome' = "ok"
          /\ cycle' = CycleAfter("connect", "ok")
       \/ /\ calls' = <<Call("vpn_connect", None, None, "raise")>>
          /\ outcome' = "ConnectError"
          /\ cycle' = CycleAfter("connect", "ConnectError")
          /\ UNCHANGED active
    /\ UNCHANGED <<settings, ipv6_on, killswitch, daemon, profile, entry_ip>>
    /\ UNCHANGED ivars

\* ---- disconnect -------------------------------------------------------

BeginDisconnect ==
    /\ IsIdle
    /\ pc' = [op |-> "disconnect", i |-> 1]
    /\ calls' = <<>>
    /\ outcome' = "running"
    /\ before' = Snapshot
    /\ UNCHANGED <<settings, ipv6_on, killswitch, daemon, profile, active,
                   entry_ip, cycle>>
    /\ UNCHANGED ivars

\* The except clauses around vpn_remove_connection, in order: what disconnect
\* raises when the removal raised e.
DisconnectRaisesNotFoundOnly(e) ==
    IF IsInstance(e, "ConnectionNotFound") THEN "ConnectionNotFound"
    ELSE IF IsInstance(e, "ProtonVPNException") \/ IsInstance(e, "Exception")
         THEN "Exception"
    ELSE e
DisconnectRaises(e) ==
    IF IsInstance(e, "ConnectionNotFound") THEN "ConnectionNotFound"
    ELSE IF \/ IsInstance(e, "RemoveConnectionFinishError")
            \/ IsInstance(e, "StopConnectionFinishError")
         THEN "ConnectionNotFound"
    ELSE IF IsInstance(e, "ProtonVPNException") \/ IsInstance(e, "Exception")
         THEN "Exception"
    ELSE e

\* try: self.adapter.vpn_remove_connection() except ...
DisconnectRemove ==
    /\ Step = "remove"
    /\ \/ /\ profile
          /\ profile' = FALSE
          /\ active' = FALSE
          /\ calls' = Append(calls, Call("vpn_remove_connection", None, None, "ok"))
          /\ Proceed
       \/ \E e \in RemovalErrors :
             /\ calls' = Append(calls, Call("vpn_remove_connection", None, None, e))
             /\ Raise(DisconnectRaises(e))
             /\ UNCHANGED <<profile, active>>
    /\ UNCHANGED <<settings, ipv6_on, killswitch, daemon, entry_ip, before>>
    /\ UNCHANGED ivars

\* _post_disconnect: self.daemon_reconnector.stop_daemon_reconnector()
PostStopDaemon ==
    /\ Step = "stop_daemon"
    /\ \/ /\ daemon' = FALSE
          /\ calls' = Append(calls, Call("stop_daemon_reconnector", None, None, "ok"))
          /\ Proceed
       \/ /\ calls' = Append(calls, Call("stop_daemon_reconnector", None, None, "raise"))
          /\ Raise("DaemonError")
          /\ UNCHANGED daemon
    /\ UNCHANGED <<settings, ipv6_on, killswitch, profile, active, entry_ip, before>>
    /\ UNCHANGED ivars

\* _post_disconnect: self.ipv6_lp.manage(DISABLE)
PostLpDisable ==
    /\ Step = "lp_disable"
    /\ \/ /\ ipv6_on' = Ipv6Manage("DISABLE")
          /\ calls' = Append(calls, Call("ipv6_lp.manage", "DISABLE", None, "ok"))
          /\ Proceed
       \/ /\ calls' = Append(calls, Call("ipv6_lp.manage", "DISABLE", None, "raise"))
          /\ Raise("LeakProtectionError")
          /\ UNCHANGED ipv6_on
    /\ UNCHANGED <<settings, killswitch, daemon, profile, active, entry_ip, before>>
    /\ UNCHANGED ivars

\* The kill-switch mode in which post-disconnect releases the kill switch.
PostDisconnectKsModeHard == KS_HARD
PostDisconnectKsMode == KS_SOFT

\* _post_disconnect: if settings.killswitch == SOFT:
\*                       self.killswitch.manage(DISABLE)
PostKsDisable ==
    /\ Step = "ks_disable"
    /\ IF ks_setting = PostDisconnectKsMode
       THEN \/ /\ killswitch' = KsManage("DISABLE", None)
               /\ calls' = Append(calls, Call("killswitch.manage", "DISABLE", None, "ok"))
               /\ Proceed
            \/ /\ calls' = Append(calls, Call("killswitch.manage", "DISABLE", None, "raise"))
               /\ Raise("KillSwitchError")
               /\ UNCHANGED killswitch
       ELSE /\ Proceed
            /\ UNCHANGED <<killswitch, calls>>
    /\ UNCHANGED <<settings, ipv6_on, daemon, profile, active, entry_ip, before>>
    /\ UNCHANGED ivars

\* ---- environment ------------------------------------------------------

\* DbusReconnect.start_daemon_reconnector, run by the application once the
\* VPN is up.
StartReconnector ==
    /\ IsIdle
    /\ active
    /\ ~daemon
    /\ daemon' = TRUE
    /\ pc' = [op |-> "start_reconnector", i |-> 0]
    /\ calls' = <<>>
    /\ outcome' = "ok"
    /\ before' = Snapshot
    /\ UNCHANGED <<settings, ipv6_on, killswitch, profile, active,
                   entry_ip, cycle>>
    /\ UNCHANGED ivars

\* ---- specification ----------------------------------------------------

IndexIdle ==
    /\ conns = <<>>
    /\ actives = <<>>
    /\ devices = <<>>
    /\ call = [fn |-> None]
    /\ ret = [kind |-> None, val |-> None]
    /\ prev = [kind |-> None, val |-> None]

Init ==
    /\ lp_enabled \in BOOLEAN
    /\ ks_setting \in KillswitchStatusEnum
    /\ ipv6_on \in BOOLEAN
    /\ killswitch = KsOff
    /\ daemon = FALSE
    /\ profile = FALSE
    /\ active = FALSE
    /\ pc = [op |-> None, i |-> 0]
    /\ entry_ip = None
    /\ calls = <<>>
    /\ outcome = None
    /\ cycle = 0
    /\ before = [ipv6_on |-> ipv6_on, killswitch |-> KsOff,
                 daemon |-> FALSE, profile |-> FALSE]
    /\ IndexIdle

Next ==
    \/ \E ip \in EntryIps : BeginSetup(ip)
    \/ PreSetupLp
    \/ PreSetupKs
    \/ SetupAdd
    \/ Connect
    \/ BeginDisconnect
    \/ DisconnectRemove
    \/ PostStopDaemon
    \/ PostLpDisable
    \/ PostKsDisable
    \/ StartReconnector

Spec == Init /\ [][Next]_vars

(***************************************************************************)
(*                          DbusWrapper                                    *)
(*                                                                         *)
(* A profile's settings path is its index in conns, an active connection's *)
(* path its index in actives. Strings that are compared up to case         *)
(* (connection ids, conn_name) are sequences of characters.                *)
(***************************************************************************)

\* Longest snapshot of profiles / of active connections.
MaxConns   == 2
MaxActives == 2
\* Most devices NetworkManager lists.
MaxDevices == 2

\* return None
NoPath == 0
\* key not put in the returned dict
Absent == -1
\* protonvpn_conn_info[1] = None
NoState == -1

\* constants.VIRTUAL_DEVICE_NAME
VIRTUAL_DEVICE_NAME == "proton0"

DevNames == {VIRTUAL_DEVICE_NAME, "tun0"}

\* The "vpn" section of a profile's settings: missing, without "data",
\* "data" without "dev", or the value of vpn.data.dev.
VpnSections == {"novpn", "nodata", "nodev"} \cup DevNames

\* connection ids and conn_name arguments
Ids == { <<"P", "v">>, <<"p", "v">>, <<"p">>, <<"x">> }

\* Id property of active connections, and get_by_id arguments
ActiveIds == {"ProtonVPN", "Wired"}

DevicePaths == {"dev1", "dev2"}

\* str.lower()
LowerChar(c) == IF c = "P" THEN "p" ELSE IF c = "V" THEN "v" ELSE c
Lower(str) == [k \in 1..Len(str) |-> LowerChar(str[k])]

\* a in b, for strings
IsSubstring(a, b) ==
    \E k \in 0..(Len(b) - Len(a)) : SubSeq(b, k + 1, k + Len(a)) = a

Return(v) == [kind |-> "return", val |-> v]
Raised(e) == [kind |-> "raise", val |-> e]
Pending   == [kind |-> None, val |-> None]

\* get_active_conn_props(active_conn): GetAll on the active connection
ActiveReadable(a) == actives[a].read = "ok"

\* get_all_conn_settings(conn): GetSettings on the profile
SettingsReadable(c) == conns[c].ok

\* ---- search_for_connection ---------------------------------------------

\* Lines 55-59: dev_name
DevNameOf(all_settings) ==
    IF all_settings.vpn = "novpn" THEN None          \* "vpn" not in settings
    ELSE IF all_settings.vpn = "nodata" THEN None     \* .get("data") is None
    ELSE IF all_settings.vpn = "nodev" THEN None      \* .get("dev") is None
    ELSE all_settings.vpn

\* Lines 61-69: the match condition
MatchesQueryCaseSensitive(conn_name, interface_name, connection_id, dev_name) ==
    \/ conn_name = connection_id
    \/ /\ IsSubstring(conn_name, connection_id)
       /\ interface_name # None
       /\ interface_name = dev_name
MatchesQuery(conn_name, interface_name, connection_id, dev_name) ==
    \/ conn_name = connection_id
    \/ /\ IsSubstring(Lower(conn_name), Lower(connection_id))
       /\ interface_name # None
       /\ interface_name = dev_name

\* ---- get_active_connection ---------------------------------------------

\* Lines 341-362 for one readable active connection: "match", "next" or
\* the exception raised.
ActiveConnTestEitherDefault(props, get_by_id, get_by_settings_path, get_by_device_path) ==
    IF get_by_id # None /\ props.Id = get_by_id THEN "match"
    ELSE IF get_by_settings_path # NoPath /\ props.Connection = get_by_settings_path
         THEN "match"
    ELSE IF get_by_device_path # None /\ props.Devices = <<>> THEN "IndexError"
    ELSE IF get_by_device_path # None
            /\ props.Devices[Len(props.Devices)] = get_by_device_path
         THEN "match"
    ELSE IF props.Default \/ props.Default6 THEN "match"
    ELSE "next"
ActiveConnTest(props, get_by_id, get_by_settings_path, get_by_device_path) ==
    IF get_by_id # None /\ props.Id = get_by_id THEN "match"
    ELSE IF get_by_settings_path # NoPath /\ props.Connection = get_by_settings_path
         THEN "match"
    ELSE IF get_by_device_path # None /\ props.Devices = <<>> THEN "IndexError"
    ELSE IF get_by_device_path # None
            /\ props.Devices[Len(props.Devices)] = get_by_device_path
         THEN "match"
    ELSE IF props.Default \/ (props.Default /\ props.Default6) THEN "match"
    ELSE "next"

\* Lines 321, 422-436: each call polls the bus and iterates a generator of
\* its own; the bus's list of active connections is as it was afterwards.
ActiveConnsAfterScanExhausted(list) == << >>
ActiveConnsAfterScan(list) == list

RECURSIVE GetActiveFrom(_, _, _, _)
\* Lines 328-364: the scan, from active connection a on.
GetActiveFrom(a, get_by_id, get_by_settings_path, get_by_device_path) ==
    IF a > Len(actives) THEN Return(NoPath)
    ELSE IF actives[a].read = "TypeError" THEN Return(NoPath)
    ELSE IF actives[a].read = "DBusException"
         THEN GetActiveFrom(a + 1, get_by_id, get_by_settings_path, get_by_device_path)
    ELSE LET t == ActiveConnTest(actives[a], get_by_id, get_by_settings_path,
                                 get_by_device_path)
         IN  IF t = "match" THEN Return(a)
             ELSE IF t = "next"
                  THEN GetActiveFrom(a + 1, get_by_id, get_by_settings_path,
                                     get_by_device_path)
             ELSE Raised(t)

get_active_connection(get_by_id, get_by_settings_path, get_by_device_path) ==
    GetActiveFrom(1, get_by_id, get_by_settings_path, get_by_device_path)

\* ---- get_connection_device_path -----------------------------------------

RECURSIVE DevicePathFromContained(_, _)
RECURSIVE DevicePathFrom(_, _)
\* a scan that looks for the profile anywhere in the collection
DevicePathFromContained(d, connection_settings_path) ==
    IF d > Len(devices) THEN None
    ELSE LET device_available_conns == devices[d].avail
         IN  IF \E k \in DOMAIN device_available_conns :
                    device_available_conns[k] = connection_settings_path
             THEN devices[d].path
             ELSE DevicePathFromContained(d + 1, connection_settings_path)
\* Lines 97-110: the first device whose last available connection is the
\* profile, or None.
DevicePathFrom(d, connection_settings_path) ==
    IF d > Len(devices) THEN None
    ELSE LET device_available_conns == devices[d].avail
         IN  IF /\ Len(device_available_conns) > 0
                /\ device_available_conns[Len(device_available_conns)]
                       = connection_settings_path
             THEN devices[d].path
             ELSE DevicePathFrom(d + 1, connection_settings_path)

get_connection_device_path(connection_settings_path) ==
    DevicePathFrom(1, connection_settings_path)

\* ---- search_for_connection (the scan) ----------------------------------

\* return {}
EmptyResult ==
    [connection_id |-> <<>>, settings_path |-> Absent,
     device_path |-> "absent", active_conn_path |-> Absent]

\* Lines 70-82: the dict returned for a match
MatchResult(q, connection_id, iterated_connection) ==
    LET found == get_active_connection(None, iterated_connection, None)
    IN  IF q.return_active_conn_path /\ q.is_active /\ found.kind = "raise"
        THEN found
        ELSE Return(
            [connection_id |-> connection_id,
             settings_path |-> IF q.return_settings_path
                               THEN iterated_connection ELSE Absent,
             device_path |-> IF q.return_device_path
                             THEN get_connection_device_path(iterated_connection)
                             ELSE "absent",
             active_conn_path |-> IF q.return_active_conn_path /\ q.is_active
                                  THEN found.val ELSE Absent])

\* What a read that failed does to the scan: the exception leaves the loop.
ReadFails(e, rest) == Raised(e)

RECURSIVE SearchFrom(_, _)
\* Lines 42-84: the scan, from element k of connection_list on.
SearchFrom(k, q) ==
    IF k > (IF q.is_active THEN Len(actives) ELSE Len(conns))
    THEN Return(EmptyResult)
    ELSE IF q.is_active /\ ~ActiveReadable(k)
         THEN ReadFails("DBusException", SearchFrom(k + 1, q))
    ELSE LET iterated_connection ==
                 IF q.is_active THEN actives[k].Connection ELSE k
         IN  IF ~SettingsReadable(iterated_connection)
             THEN ReadFails("DBusException", SearchFrom(k + 1, q))
             ELSE LET all_connection_properties == conns[iterated_connection]
                      connection_id == all_connection_properties.id
                      dev_name == DevNameOf(all_connection_properties)
                  IN  IF MatchesQuery(q.conn_name, q.interface_name,
                                      connection_id, dev_name)
                      THEN MatchResult(q, connection_id, iterated_connection)
                      ELSE SearchFrom(k + 1, q)

search_for_connection(q) == SearchFrom(1, q)

\* ---- is_protonvpn_being_prepared ---------------------------------------

\* protonvpn_conn_info = [False, None, None]
ConnInfoInitPresent ==
    [present |-> TRUE, state |-> NoState, path |-> NoPath]
ConnInfoInit ==
    [present |-> FALSE, state |-> NoState, path |-> NoPath]

RECURSIVE PreparedFromFirst(_, _)
RECURSIVE PreparedFrom(_, _)
\* a scan that returns at the first match
PreparedFromFirst(a, protonvpn_conn_info) ==
    IF a > Len(actives) THEN Return(protonvpn_conn_info)
    ELSE IF ~ActiveReadable(a) THEN Raised("DBusException")
    ELSE IF ~SettingsReadable(actives[a].Connection) THEN Raised("DBusException")
    ELSE LET active_conn_props == actives[a]
             vpn_all_settings == conns[active_conn_props.Connection]
         IN  IF active_conn_props.Type # "vpn"
             THEN PreparedFromFirst(a + 1, protonvpn_conn_info)
             ELSE IF vpn_all_settings.vpn \in {"novpn", "nodata", "nodev"}
                  THEN Raised("KeyError")
             ELSE IF vpn_all_settings.vpn = VIRTUAL_DEVICE_NAME
                  THEN Return([present |-> TRUE,
                               state |-> active_conn_props.State,
                               path |-> a])
             ELSE PreparedFromFirst(a + 1, protonvpn_conn_info)
\* Lines 218-234: the scan, from active connection a on.
PreparedFrom(a, protonvpn_conn_info) ==
    IF a > Len(actives) THEN Return(protonvpn_conn_info)
    ELSE IF ~ActiveReadable(a) THEN Raised("DBusException")
    ELSE IF ~SettingsReadable(actives[a].Connection) THEN Raised("DBusException")
    ELSE LET active_conn_props == actives[a]
             vpn_all_settings == conns[active_conn_props.Connection]
         IN  IF active_conn_props.Type # "vpn"
             THEN PreparedFrom(a + 1, protonvpn_conn_info)
             ELSE IF vpn_all_settings.vpn \in {"novpn", "nodata", "nodev"}
                  THEN Raised("KeyError")
             ELSE IF vpn_all_settings.vpn = VIRTUAL_DEVICE_NAME
                  THEN PreparedFrom(a + 1,
                           [present |-> TRUE,
                            state |-> active_conn_props.State,
                            path |-> a])
             ELSE PreparedFrom(a + 1, protonvpn_conn_info)

is_protonvpn_being_prepared == PreparedFrom(1, ConnInfoInit)

\* ---- get_vpn_interface -------------------------------------------------

\* return ()
NoInterface == [iface |-> NoPath, all_settings |-> Absent]

\* Lines 257-259, 271-283: continue
SkipConnectionStops(rest) == Return(NoInterface)
SkipConnection(rest) == rest

RECURSIVE VpnInterfaceFrom(_, _)
\* Lines 251-300: the scan, from profile k on.
VpnInterfaceFrom(k, return_properties) ==
    IF k > Len(conns) THEN Return(NoInterface)
    ELSE IF ~SettingsReadable(k)
         THEN SkipConnection(VpnInterfaceFrom(k + 1, return_properties))
    ELSE LET all_settings == conns[k]
         IN  IF all_settings.type # "vpn"
             THEN VpnInterfaceFrom(k + 1, return_properties)
             ELSE IF all_settings.vpn \in {"novpn", "nodata", "nodev"}
                  THEN SkipConnection(VpnInterfaceFrom(k + 1, return_properties))
             ELSE IF all_settings.vpn = VIRTUAL_DEVICE_NAME
                  THEN Return([iface |-> k,
                               all_settings |-> IF return_properties
                                                THEN k ELSE Absent])
             ELSE VpnInterfaceFrom(k + 1, return_properties)

get_vpn_interface(return_properties) == VpnInterfaceFrom(1, return_properties)

\* ---- check_active_vpn_conn ---------------------------------------------

\* active_conn_all_settings = [False, None]
NotVpn == [is_vpn |-> FALSE, all_settings |-> NoPath]

\* Lines 193-200: the test on the properties
IsConnectedVpnAnyState(active_conn_props) ==
    active_conn_props.Type = "vpn"
IsConnectedVpn(active_conn_props) ==
    active_conn_props.Type = "vpn" /\ active_conn_props.State = 2

\* Lines 183-205. The read of the profile's settings is in the else clause
\* of the try statement: its DBusException is not handled.
check_active_vpn_conn(active_conn) ==
    IF ~ActiveReadable(active_conn) THEN Return(NotVpn)
    ELSE LET active_conn_props == actives[active_conn]
         IN  IF IsConnectedVpn(active_conn_props)
             THEN IF ~SettingsReadable(active_conn_props.Connection)
                  THEN Raised("DBusException")
                  ELSE Return([is_vpn |-> TRUE,
                               all_settings |-> active_conn_props.Connection])
             ELSE Return(NotVpn)

\* ---- snapshots and calls -----------------------------------------------

SeqsUpTo(S, n) == UNION { [1..k -> S] : k \in 0..n }

Profile(id, vpn) == [ok |-> TRUE, id |-> id, vpn |-> vpn]
\* a profile whose GetSettings fails (deleted since it was listed)
UnreadableProfile == [ok |-> FALSE, id |-> <<"x">>, vpn |-> "novpn"]

ActiveConn(id, type, state, default, default6, connection, devs) ==
    [read |-> "ok", Id |-> id, Type |-> type, State |-> state,
     Default |-> default, Default6 |-> default6,
     Connection |-> connection, Devices |-> devs]
\* an active connection whose GetAll fails (gone since it was listed)
UnreadableActive ==
    [ActiveConn("Wired", "vpn", 2, FALSE, FALSE, 1, <<"dev1">>)
        EXCEPT !.read = "DBusException"]

AllProfiles ==
    { Profile(id, vpn) : id \in Ids, vpn \in VpnSections } \cup {UnreadableProfile}

FixedConns == << Profile(<<"P", "v">>, VIRTUAL_DEVICE_NAME), Profile(<<"x">>, "novpn") >>

FixedDevices == << [path |-> "dev1", avail |-> <<1>>],
                   [path |-> "dev2", avail |-> <<1, 2>>] >>

\* search_for_connection(conn_name, interface_name) over the profiles
InitSearch ==
    /\ conns \in SeqsUpTo(AllProfiles, MaxConns)
    /\ actives = <<>>
    /\ \E n \in Ids, iface \in {None} \cup DevNames, sp \in BOOLEAN :
          call = [fn |-> "search_for_connection", conn_name |-> n,
                  interface_name |-> iface, is_active |-> FALSE,
                  return_settings_path |-> sp, return_device_path |-> FALSE,
                  return_active_conn_path |-> FALSE]

\* An active connection paired with the profile it activates.
SearchActivePairs ==
    ({ Profile(id, vpn) : id \in { <<"P", "v">>, <<"x">> },
                          vpn \in {"novpn", VIRTUAL_DEVICE_NAME} }
        \cup {UnreadableProfile})
    \X ({ ActiveConn("ProtonVPN", "vpn", 2, d, FALSE, 1, <<"dev1">>) : d \in BOOLEAN }
        \cup {UnreadableActive})

\* search_for_connection(..., is_active=True) over the active connections
InitSearchActive ==
    /\ \E pairs \in SeqsUpTo(SearchActivePairs, MaxActives) :
          /\ conns = [k \in 1..Len(pairs) |-> pairs[k][1]]
          /\ actives = [k \in 1..Len(pairs) |-> [pairs[k][2] EXCEPT !.Connection = k]]
    /\ \E n \in Ids, iface \in {None, VIRTUAL_DEVICE_NAME}, ap \in BOOLEAN, dp \in BOOLEAN :
          call = [fn |-> "search_for_connection", conn_name |-> n,
                  interface_name |-> iface, is_active |-> TRUE,
                  return_settings_path |-> TRUE, return_device_path |-> dp,
                  return_active_conn_path |-> ap]

GetActiveUniverse ==
    { ActiveConn(id, "vpn", 2, d, d6, c, devs) :
          id \in ActiveIds, d \in BOOLEAN, d6 \in BOOLEAN,
          c \in 1..Len(FixedConns),
          devs \in { <<>>, <<"dev1">>, <<"dev1", "dev2">> } }
    \cup {UnreadableActive}

Selectors ==
    { [get_by_id |-> None, get_by_settings_path |-> NoPath, get_by_device_path |-> None] }
    \cup { [get_by_id |-> id, get_by_settings_path |-> NoPath, get_by_device_path |-> None] :
             id \in ActiveIds }
    \cup { [get_by_id |-> None, get_by_settings_path |-> c, get_by_device_path |-> None] :
             c \in 1..Len(FixedConns) }
    \cup { [get_by_id |-> None, get_by_settings_path |-> NoPath, get_by_device_path |-> d] :
             d \in DevicePaths }

\* get_active_connection(selector)
InitGetActive ==
    /\ conns = FixedConns
    /\ actives \in SeqsUpTo(GetActiveUniverse, MaxActives)
    /\ \E sel \in Selectors :
          call = [fn |-> "get_active_connection", sel |-> sel]

PreparedPairs ==
    ({ Profile(<<"P", "v">>, vpn) : vpn \in VpnSections } \cup {UnreadableProfile})
    \X ({ ActiveConn("ProtonVPN", t, st, FALSE, FALSE, 1, <<"dev1">>) :
             t \in {"vpn", "802-11-wireless"}, st \in {1, 2} }
        \cup {UnreadableActive})

\* is_protonvpn_being_prepared()
InitPrepared ==
    /\ \E pairs \in SeqsUpTo(PreparedPairs, MaxActives) :
          /\ conns = [k \in 1..Len(pairs) |-> pairs[k][1]]
          /\ actives = [k \in 1..Len(pairs) |-> [pairs[k][2] EXCEPT !.Connection = k]]
    /\ call = [fn |-> "is_protonvpn_being_prepared"]

\* object paths of the devices, in the order of AllDevices
DeviceNames == <<"dev1", "dev2", "dev3", "dev4">>

\* AvailableConnections of a device: profile paths, in the service's order
AvailableConns == SeqsUpTo(1..Len(FixedConns), MaxConns)

\* get_connection_device_path(connection_settings_path)
InitDevicePath ==
    /\ conns = FixedConns
    /\ actives = <<>>
    /\ \E avail \in SeqsUpTo(AvailableConns, MaxDevices) :
          devices = [k \in 1..Len(avail) |->
                        [path |-> DeviceNames[k], avail |-> avail[k]]]
    /\ \E c \in 1..Len(FixedConns) :
          call = [fn |-> "get_connection_device_path",
                  connection_settings_path |-> c]

\* connection.type of the profiles
ConnectionTypes == {"vpn", "802-3-ethernet"}

\* a profile with its connection.type
TypedProfile(id, type, vpn) ==
    [ok |-> TRUE, id |-> id, vpn |-> vpn, type |-> type]

VpnInterfaceProfiles ==
    { TypedProfile(<<"P", "v">>, t, vpn) : t \in ConnectionTypes, vpn \in VpnSections }
    \cup { [TypedProfile(<<"x">>, "vpn", "novpn") EXCEPT !.ok = FALSE] }

\* get_vpn_interface(return_properties)
InitVpnInterface ==
    /\ conns \in SeqsUpTo(VpnInterfaceProfiles, MaxConns)
    /\ actives = <<>>
    /\ \E rp \in BOOLEAN :
          call = [fn |-> "get_vpn_interface", return_properties |-> rp]

\* NMActiveConnectionState: activating, activated, deactivating
ActiveStates == {1, 2, 3}

CheckActivePairs ==
    {Profile(<<"P", "v">>, VIRTUAL_DEVICE_NAME), UnreadableProfile}
    \X ({ ActiveConn("ProtonVPN", t, st, FALSE, FALSE, 1, <<"dev1">>) :
             t \in {"vpn", "802-11-wireless"}, st \in ActiveStates }
        \cup {UnreadableActive})

\* check_active_vpn_conn(active_conn)
InitCheckActive ==
    /\ \E pairs \in SeqsUpTo(CheckActivePairs, MaxActives) :
          /\ conns = [k \in 1..Len(pairs) |-> pairs[k][1]]
          /\ actives = [k \in 1..Len(pairs) |-> [pairs[k][2] EXCEPT !.Connection = k]]
    /\ \E a \in DOMAIN actives :
          call = [fn |-> "check_active_vpn_conn", active_conn |-> a]

SearchForConnection ==
    /\ call.fn = "search_for_connection"
    /\ ret = Pending
    /\ ret' = search_for_connection(call)
    /\ UNCHANGED <<conns, actives, devices, call, prev>>
    /\ UNCHANGED lvars

GetActiveConnection ==
    /\ call.fn = "get_active_connection"
    /\ ret = Pending
    /\ ret' = get_active_connection(call.sel.get_by_id,
                                    call.sel.get_by_settings_path,
                                    call.sel.get_by_device_path)
    /\ actives' = ActiveConnsAfterScan(actives)
    /\ UNCHANGED <<conns, devices, call, prev>>
    /\ UNCHANGED lvars

\* the same call once more, after the first one returned or raised
GetActiveConnectionAgain ==
    /\ call.fn = "get_active_connection"
    /\ ret # Pending
    /\ prev = Pending
    /\ prev' = ret
    /\ ret' = get_active_connection(call.sel.get_by_id,
                                    call.sel.get_by_settings_path,
                                    call.sel.get_by_device_path)
    /\ actives' = ActiveConnsAfterScan(actives)
    /\ UNCHANGED <<conns, devices, call>>
    /\ UNCHANGED lvars

IsProtonvpnBeingPrepared ==
    /\ call.fn = "is_protonvpn_being_prepared"
    /\ ret = Pending
    /\ ret' = is_protonvpn_being_prepared
    /\ UNCHANGED <<conns, actives, devices, call, prev>>
    /\ UNCHANGED lvars

GetConnectionDevicePath ==
    /\ call.fn = "get_connection_device_path"
    /\ ret = Pending
    /\ ret' = Return(get_connection_device_path(call.connection_settings_path))
    /\ UNCHANGED <<conns, actives, devices, call, prev>>
    /\ UNCHANGED lvars

GetVpnInterface ==
    /\ call.fn = "get_vpn_interface"
    /\ ret = Pending
    /\ ret' = get_vpn_interface(call.return_properties)
    /\ UNCHANGED <<conns, actives, devices, call, prev>>
    /\ UNCHANGED lvars

CheckActiveVpnConn ==
    /\ call.fn = "check_active_vpn_conn"
    /\ ret = Pending
    /\ ret' = check_active_vpn_conn(call.active_conn)
    /\ UNCHANGED <<conns, actives, devices, call, prev>>
    /\ UNCHANGED lvars

\* No Connection method runs while the discovery functions are exercised.
LifecycleIdle ==
    /\ lp_enabled = FALSE
    /\ ks_setting = KS_DISABLED
    /\ ipv6_on = FALSE
    /\ killswitch = KsOff
    /\ daemon = FALSE
    /\ profile = FALSE
    /\ active = FALSE
    /\ pc = [op |-> None, i |-> 0]
    /\ entry_ip = None
    /\ calls = <<>>
    /\ outcome = None
    /\ cycle = 0
    /\ before = [ipv6_on |-> FALSE, killswitch |-> KsOff,
                 daemon |-> FALSE, profile |-> FALSE]

InitIndex ==
    /\ LifecycleIdle
    /\ ret = Pending
    /\ prev = Pending
    /\ \/ /\ devices = FixedDevices
          /\ \/ InitSearch
             \/ InitSearchActive
             \/ InitGetActive
             \/ InitPrepared
             \/ InitVpnInterface
             \/ InitCheckActive
       \/ InitDevicePath

NextIndex ==
    \/ SearchForConnection
    \/ GetActiveConnection
    \/ GetActiveConnectionAgain
    \/ IsProtonvpnBeingPrepared
    \/ GetConnectionDevicePath
    \/ GetVpnInterface
    \/ CheckActiveVpnConn

SpecIndex == InitIndex /\ [][NextIndex]_vars

(***************************************************************************)
(*                    Claims about Connection                              *)
(***************************************************************************)

IsActuatorCall(c) == c.fn \in {"ipv6_lp.manage", "killswitch.manage"}
IsPostDisconnectCall(c) ==
    c.fn \in {"stop_daemon_reconnector", "ipv6_lp.manage", "killswitch.manage"}
IsRemoval(c) == c.fn = "vpn_remove_connection"
IsAdd(c) == c.fn = "vpn_add_connection"

\* C1: in setup, every actuator call (leak protection ENABLE, kill switch
\* PRE_CONNECTION) is made strictly before the vpn_add_connection call, and
\* none after it, whatever the leak-protection flag and kill-switch mode.
C1_SetupActuatorsBeforeAdd ==
    pc.op = "setup" =>
        \A i, j \in DOMAIN calls :
            (IsActuatorCall(calls[i]) /\ IsAdd(calls[j])) => i < j

\* A setup with leak protection on and hard mode that ran to its end:
\* ENABLE, PRE_CONNECTION, vpn_add_connection.
C1_Witness ==
    /\ pc.op = "setup" /\ IsIdle /\ outcome = "ok"
    /\ lp_enabled /\ ks_setting = KS_HARD
    /\ Len(calls) = 3
    /\ calls[1].action = "ENABLE"
    /\ calls[2].action = "PRE_CONNECTION"
    /\ IsAdd(calls[3])

\* C2: in disconnect, stop_daemon_reconnector, leak protection DISABLE and
\* kill switch DISABLE are called only after vpn_remove_connection returned
\* without error; when the removal raises, none of them is called and the
\* actuators and the reconnect daemon are as they were before disconnect.
C2_PostDisconnectAfterRemoval ==
    pc.op = "disconnect" =>
        /\ \A i \in DOMAIN calls :
              IsPostDisconnectCall(calls[i]) =>
                  \E j \in 1..(i - 1) :
                      IsRemoval(calls[j]) /\ calls[j].res = "ok"
        /\ (\E j \in DOMAIN calls : IsRemoval(calls[j]) /\ calls[j].res # "ok") =>
              /\ \A i \in DOMAIN calls : ~IsPostDisconnectCall(calls[i])
              /\ ipv6_on = before.ipv6_on
              /\ killswitch = before.killswitch
              /\ daemon = before.daemon

\* A disconnect whose removal raised while leak protection was on and the
\* reconnect daemon was running.
C2_Witness ==
    /\ pc.op = "disconnect" /\ IsIdle
    /\ Len(calls) = 1 /\ IsRemoval(calls[1]) /\ calls[1].res # "ok"
    /\ ipv6_on /\ daemon /\ profile

\* C3: with leak protection enabled in the settings, in every state in which
\* the profile created by setup exists, IPv6 leak protection is on and, in
\* hard mode, the kill switch is engaged; the protections are off only in
\* states where the profile does not exist (never created, or removed).
C3_ProtectedWhileProfileExists ==
    (lp_enabled /\ profile) =>
        /\ ipv6_on
        /\ ks_setting = KS_HARD => killswitch.mode = "pre_connection"

\* Hard mode, the profile set up and connected.
C3_Witness ==
    /\ lp_enabled /\ ks_setting = KS_HARD
    /\ profile /\ active /\ cycle = 2
    /\ ipv6_on /\ killswitch.mode = "pre_connection"

\* C4: when a pre-setup actuator call raises, setup ends with that failure
\* and vpn_add_connection is never called.
C4_PreSetupFailureAborts ==
    pc.op = "setup" =>
        \A i \in DOMAIN calls :
            (IsActuatorCall(calls[i]) /\ calls[i].res = "raise") =>
                /\ \A j \in DOMAIN calls : ~IsAdd(calls[j])
                /\ IsIdle
                /\ outcome = IF calls[i].fn = "ipv6_lp.manage"
                             THEN "LeakProtectionError" ELSE "KillSwitchError"
                /\ profile = before.profile

\* Leak protection was enabled, then the kill switch PRE_CONNECTION raised.
C4_Witness ==
    /\ pc.op = "setup" /\ IsIdle
    /\ Len(calls) = 2
    /\ calls[1].fn = "ipv6_lp.manage" /\ calls[1].res = "ok"
    /\ calls[2].fn = "killswitch.manage" /\ calls[2].res = "raise"
    /\ ~profile

C5_AfterHardDisconnect ==
    (ks_setting = KS_HARD /\ pc.op = "disconnect" /\ IsIdle /\ outcome = "ok") =>
        /\ ~ipv6_on
        /\ \E i \in DOMAIN calls :
              calls[i].fn = "ipv6_lp.manage" /\ calls[i].action = "DISABLE"
        /\ \A i \in DOMAIN calls : calls[i].fn # "killswitch.manage"
        /\ killswitch.mode = "pre_connection"

C5_StaysEngaged ==
    (ks_setting = KS_HARD /\ killswitch.mode = "pre_connection") =>
        killswitch'.mode = "pre_connection"

\* C5: in hard mode a successful disconnect disables IPv6 leak protection
\* but makes no kill-switch call, and the kill switch engaged by setup
\* (PRE_CONNECTION) stays engaged in every later state.
C5_HardKillSwitchSurvivesDisconnect ==
    [](C5_AfterHardDisconnect) /\ [][C5_StaysEngaged]_vars

\* The end of a clean setup -> connect -> disconnect cycle in hard mode.
C5_Witness ==
    /\ ks_setting = KS_HARD /\ lp_enabled
    /\ pc.op = "disconnect" /\ IsIdle /\ outcome = "ok" /\ cycle = 3
    /\ ~profile /\ ~ipv6_on /\ killswitch.mode = "pre_connection"

\* C6: when the removal raises, disconnect raises ConnectionNotFound for
\* ConnectionNotFound, RemoveConnectionFinishError and
\* StopConnectionFinishError, and a generic Exception for anything else;
\* no other exception type reaches the caller.
C6_DisconnectErrorMapping ==
    pc.op = "disconnect" =>
        \A j \in DOMAIN calls :
            (IsRemoval(calls[j]) /\ calls[j].res # "ok") =>
                /\ IsIdle
                /\ outcome =
                      IF calls[j].res \in {"ConnectionNotFound",
                                           "RemoveConnectionFinishError",
                                           "StopConnectionFinishError"}
                      THEN "ConnectionNotFound"
                      ELSE "Exception"

\* A stop-finish error reported to the caller as ConnectionNotFound.
C6_Witness ==
    /\ pc.op = "disconnect" /\ IsIdle
    /\ Len(calls) = 1
    /\ calls[1].res = "StopConnectionFinishError"
    /\ outcome = "ConnectionNotFound"

\* C11: when a pre-setup actuator call fails, setup leaves nothing behind:
\* no profile is created and no actuator is changed (leak protection is as
\* it was before setup when the kill switch PRE_CONNECTION call fails).
C11_SetupLeavesNothingBehind ==
    ( /\ pc.op = "setup" /\ IsIdle
      /\ \E i \in DOMAIN calls :
            IsActuatorCall(calls[i]) /\ calls[i].res = "raise" ) =>
        /\ profile = before.profile
        /\ ipv6_on = before.ipv6_on
        /\ killswitch = before.killswitch

\* The calls post-disconnect makes when nothing raises, after the removal.
C12_Expected ==
    << [fn |-> "vpn_remove_connection", action |-> None],
       [fn |-> "stop_daemon_reconnector", action |-> None],
       [fn |-> "ipv6_lp.manage", action |-> "DISABLE"] >>
    \o (IF ks_setting = KS_SOFT
        THEN << [fn |-> "killswitch.manage", action |-> "DISABLE"] >>
        ELSE << >>)

\* C12: once the removal succeeded, post-disconnect runs whatever the
\* settings, in this order: stop the reconnect daemon, leak protection
\* DISABLE (also when leak protection is not enabled in the settings), kill
\* switch DISABLE exactly in soft mode. The calls made so far are a prefix
\* of that sequence, cut short only by a call that raised, and a disconnect
\* that returned has made them all.
C12_PostDisconnectSequence ==
    (pc.op = "disconnect" /\ calls # <<>> /\ calls[1].res = "ok") =>
        /\ Len(calls) <= Len(C12_Expected)
        /\ \A i \in DOMAIN calls :
              /\ calls[i].fn = C12_Expected[i].fn
              /\ calls[i].action = C12_Expected[i].action
              /\ (i < Len(calls) => calls[i].res = "ok")
        /\ IsIdle =>
              \/ outcome = "ok" /\ Len(calls) = Len(C12_Expected)
                               /\ calls[Len(calls)].res = "ok"
              \/ outcome # "ok" /\ calls[Len(calls)].res = "raise"
        /\ ~IsIdle => pc.i = Len(calls) + 1

\* A soft-mode disconnect with leak protection not enabled in the settings
\* that made all four calls.
C12_Witness ==
    /\ pc.op = "disconnect" /\ IsIdle /\ outcome = "ok"
    /\ ks_setting = KS_SOFT /\ ~lp_enabled
    /\ Len(calls) = 4
    /\ calls[2].fn = "stop_daemon_reconnector"
    /\ calls[3].fn = "ipv6_lp.manage" /\ calls[3].action = "DISABLE"
    /\ calls[4].fn = "killswitch.manage" /\ calls[4].action = "DISABLE"

\* pre-setup is over: setup reached the adapter or returned normally
C13_PreSetupDone ==
    \/ \E j \in DOMAIN calls : IsAdd(calls[j])
    \/ ~IsIdle /\ Step = "add"

\* C13: in setup the leak protection actuator receives ENABLE iff leak
\* protection is enabled in the settings, and the kill switch receives
\* PRE_CONNECTION with the server's entry IP iff the mode is hard; in soft
\* or disabled mode setup makes no kill-switch call.
C13_PreSetupCalls ==
    pc.op = "setup" =>
        /\ \A i \in DOMAIN calls :
              /\ calls[i].fn = "ipv6_lp.manage" =>
                    lp_enabled /\ calls[i].action = "ENABLE"
              /\ calls[i].fn = "killswitch.manage" =>
                    /\ ks_setting = KS_HARD
                    /\ calls[i].action = "PRE_CONNECTION"
                    /\ calls[i].ip = entry_ip
                    /\ entry_ip \in EntryIps
        /\ C13_PreSetupDone =>
              /\ lp_enabled =>
                    \E i \in DOMAIN calls : calls[i].fn = "ipv6_lp.manage"
              /\ ks_setting = KS_HARD =>
                    \E i \in DOMAIN calls : calls[i].fn = "killswitch.manage"

\* A hard-mode setup for the server at ip2 that engaged the kill switch for
\* that address.
C13_Witness ==
    /\ pc.op = "setup" /\ IsIdle /\ outcome = "ok"
    /\ ks_setting = KS_HARD /\ ~lp_enabled
    /\ Len(calls) = 2
    /\ calls[1] = Call("killswitch.manage", "PRE_CONNECTION", "ip2", "ok")
    /\ killswitch = [mode |-> "pre_connection", ip |-> "ip2"]

\* C15: connect makes exactly one call, adapter.vpn_connect, calls neither
\* actuator nor the reconnect daemon, leaves their state as it was, and an
\* error of the adapter reaches the caller as raised.
C15_ConnectPassThrough ==
    pc.op = "connect" =>
        /\ IsIdle
        /\ Len(calls) = 1
        /\ calls[1].fn = "vpn_connect"
        /\ ipv6_on = before.ipv6_on
        /\ killswitch = before.killswitch
        /\ daemon = before.daemon
        /\ profile = before.profile
        /\ outcome = IF calls[1].res = "ok" THEN "ok" ELSE "ConnectError"

\* The adapter failed to connect while the protections were in place.
C15_Witness ==
    /\ pc.op = "connect"
    /\ calls = <<Call("vpn_connect", None, None, "raise")>>
    /\ outcome = "ConnectError"
    /\ profile /\ ipv6_on /\ killswitch.mode = "pre_connection"

(***************************************************************************)
(*                    Claims about DbusWrapper                             *)
(***************************************************************************)

Returned == ret.kind = "return"
Finished == ret.kind # None

\* The claim's match condition for profile k of the snapshot: exact id, or
\* lower-cased name inside lower-cased id together with a given interface
\* name equal to the profile's vpn.data.dev.
C7_Matches(k) ==
    \/ call.conn_name = conns[k].id
    \/ /\ IsSubstring(Lower(call.conn_name), Lower(conns[k].id))
       /\ call.interface_name # None
       /\ conns[k].vpn \in DevNames
       /\ call.interface_name = conns[k].vpn

C7_First == CHOOSE k \in DOMAIN conns :
                C7_Matches(k) /\ \A m \in 1..(k - 1) : ~C7_Matches(m)

\* C7: over a snapshot of (readable) profiles, search_for_connection returns
\* the first profile in iteration order that matches exactly or by
\* substring + interface name, and the empty result when none does; a name
\* differing only in case does not match without an interface name, and an
\* exact id matches whatever the interface name.
C7_FirstMatchWins ==
    ( /\ call.fn = "search_for_connection"
      /\ ~call.is_active
      /\ Finished
      /\ \A k \in DOMAIN conns : conns[k].ok ) =>
        /\ Returned
        /\ IF \E k \in DOMAIN conns : C7_Matches(k)
           THEN /\ ret.val.connection_id = conns[C7_First].id
                /\ call.return_settings_path => ret.val.settings_path = C7_First
           ELSE ret.val = EmptyResult
        /\ ( /\ call.interface_name = None
             /\ \A k \in DOMAIN conns : conns[k].id # call.conn_name )
              => ret.val = EmptyResult
        /\ (\E k \in DOMAIN conns : conns[k].id = call.conn_name)
              => ret.val # EmptyResult

\* find_connection("pv", "proton0") over [x, Pv on proton0]: the second
\* profile is found by substring + interface although the case differs.
C7_Witness ==
    /\ call.fn = "search_for_connection" /\ ~call.is_active
    /\ call.conn_name = <<"p", "v">>
    /\ call.interface_name = VIRTUAL_DEVICE_NAME
    /\ call.return_settings_path
    /\ conns = << Profile(<<"x">>, VIRTUAL_DEVICE_NAME),
                  Profile(<<"P", "v">>, VIRTUAL_DEVICE_NAME) >>
    /\ Returned
    /\ ret.val.connection_id = <<"P", "v">>
    /\ ret.val.settings_path = 2

\* The profile an element of search_for_connection's list stands for.
C8_Readable(k) ==
    IF call.is_active
    THEN actives[k].read = "ok" /\ conns[actives[k].Connection].ok
    ELSE conns[k].ok

C8_ProfileOf(k) == IF call.is_active THEN conns[actives[k].Connection] ELSE conns[k]

C8_ListLen == IF call.is_active THEN Len(actives) ELSE Len(conns)

\* C8: search_for_connection and is_protonvpn_being_prepared never raise on
\* an item that cannot be read or lacks an expected key: the item is skipped
\* and a matching item after it is still found.
C8_ScansSwallowReadErrors ==
    /\ (call.fn = "search_for_connection" /\ Finished) =>
          /\ Returned
          /\ (\E k \in 1..C8_ListLen :
                 /\ C8_Readable(k)
                 /\ MatchesQuery(call.conn_name, call.interface_name,
                                 C8_ProfileOf(k).id, DevNameOf(C8_ProfileOf(k))))
                => ret.val # EmptyResult
    /\ (call.fn = "is_protonvpn_being_prepared" /\ Finished) => Returned

\* C9: with no active connection, get_active_connection returns None for
\* every selector and is_protonvpn_being_prepared returns
\* (False, None, None); neither raises.
C9_EmptyActiveList ==
    (actives = <<>> /\ Finished) =>
        /\ call.fn = "get_active_connection" =>
              Returned /\ ret.val = NoPath
        /\ call.fn = "is_protonvpn_being_prepared" =>
              /\ Returned
              /\ ret.val.present = FALSE
              /\ ret.val.state = NoState
              /\ ret.val.path = NoPath

\* is_protonvpn_being_prepared has run against an empty list.
C9_Witness ==
    /\ call.fn = "is_protonvpn_being_prepared"
    /\ actives = <<>>
    /\ Returned
    /\ ret.val = [present |-> FALSE, state |-> NoState, path |-> NoPath]

C10_HasSelector ==
    \/ call.sel.get_by_id # None
    \/ call.sel.get_by_settings_path # NoPath
    \/ call.sel.get_by_device_path # None

\* The selector's field of active connection a equals the selector's value.
C10_FieldMatches(a) ==
    /\ actives[a].read = "ok"
    /\ \/ call.sel.get_by_id # None /\ actives[a].Id = call.sel.get_by_id
       \/ /\ call.sel.get_by_settings_path # NoPath
          /\ actives[a].Connection = call.sel.get_by_settings_path
       \/ /\ call.sel.get_by_device_path # None
          /\ actives[a].Devices # <<>>
          /\ actives[a].Devices[Len(actives[a].Devices)] = call.sel.get_by_device_path

\* C10: with a by-id, by-profile-path or by-device-path selector,
\* get_active_connection returns the first active connection whose field
\* equals the selector's value, None when there is none, and never a
\* connection that does not match, whatever its default-route flags.
C10_SelectorFirstMatch ==
    (call.fn = "get_active_connection" /\ C10_HasSelector /\ Returned) =>
        IF \E a \in DOMAIN actives : C10_FieldMatches(a)
        THEN /\ ret.val \in DOMAIN actives
             /\ C10_FieldMatches(ret.val)
             /\ \A m \in 1..(ret.val - 1) : ~C10_FieldMatches(m)
        ELSE ret.val = NoPath

\* get_active_connection() with no selector given
C14_DefaultRouteSelector ==
    /\ call.fn = "get_active_connection"
    /\ call.sel = [get_by_id |-> None, get_by_settings_path |-> NoPath,
                   get_by_device_path |-> None]

\* active connection a can be read and has its IPv4 default flag set
C14_HasDefault(a) == ActiveReadable(a) /\ actives[a].Default

\* C14: with no selector, get_active_connection returns the first active
\* connection in iteration order whose Default flag is set, and None when
\* none has it set; a connection whose Default is false is never returned,
\* whatever its Default6.
C14_DefaultRouteFirstDefault ==
    (C14_DefaultRouteSelector /\ Finished) =>
        /\ Returned
        /\ IF \E a \in DOMAIN actives : C14_HasDefault(a)
           THEN /\ ret.val \in DOMAIN actives
                /\ C14_HasDefault(ret.val)
                /\ \A b \in 1..(ret.val - 1) : ~C14_HasDefault(b)
           ELSE ret.val = NoPath

\* The first active connection has only Default6 set and is passed over for
\* the second, which has Default set.
C14_Witness ==
    /\ C14_DefaultRouteSelector
    /\ Len(actives) = 2
    /\ ActiveReadable(1) /\ ~actives[1].Default /\ actives[1].Default6
    /\ C14_HasDefault(2)
    /\ ret = Return(2)

C17_Matches(a) ==
    /\ actives[a].Type = "vpn"
    /\ conns[actives[a].Connection].vpn = VIRTUAL_DEVICE_NAME

C17_Last == CHOOSE a \in DOMAIN actives :
                C17_Matches(a) /\ \A b \in DOMAIN actives : b > a => ~C17_Matches(b)

\* C17: is_protonvpn_being_prepared scans every active connection without
\* stopping at a match. The tuple it returns has is_vpn_present true iff some
\* active connection has Type vpn and a profile whose vpn.data.dev is the
\* virtual device name; state and path are then those of the last such
\* connection in iteration order, and are None when there is none.
C17_LastMatchWins ==
    (call.fn = "is_protonvpn_being_prepared" /\ Returned) =>
        /\ ret.val.present <=> \E a \in DOMAIN actives : C17_Matches(a)
        /\ ret.val.present =>
              /\ ret.val.path = C17_Last
              /\ ret.val.state = actives[C17_Last].State
        /\ ~ret.val.present =>
              ret.val.state = NoState /\ ret.val.path = NoPath

\* Two active connections match, in different states; the second is reported.
C17_Witness ==
    /\ call.fn = "is_protonvpn_being_prepared"
    /\ Len(actives) = 2
    /\ C17_Matches(1) /\ C17_Matches(2)
    /\ actives[1].State # actives[2].State
    /\ ret = Return([present |-> TRUE, state |-> actives[2].State, path |-> 2])

\* the last element of device d's available connections is profile c
C18_LastIs(d, c) ==
    /\ devices[d].avail # << >>
    /\ devices[d].avail[Len(devices[d].avail)] = c

C18_Contains(d, c) == \E k \in DOMAIN devices[d].avail : devices[d].avail[k] = c

\* C18: get_connection_device_path returns the first device, in the order of
\* AllDevices, whose available connections are non-empty and end with the
\* profile path, and None when there is no such device, also when a device
\* has the profile path elsewhere in its collection.
C18_LastElementDecides ==
    (call.fn = "get_connection_device_path" /\ Finished) =>
        /\ Returned
        /\ LET c == call.connection_settings_path
           IN  IF \E d \in DOMAIN devices : C18_LastIs(d, c)
               THEN \E d \in DOMAIN devices :
                       /\ C18_LastIs(d, c)
                       /\ \A e \in 1..(d - 1) : ~C18_LastIs(e, c)
                       /\ ret.val = devices[d].path
               ELSE ret.val = None

\* A device lists the profile, but not last: no device is returned.
C18_Witness ==
    /\ call.fn = "get_connection_device_path"
    /\ \E d \in DOMAIN devices : C18_Contains(d, call.connection_settings_path)
    /\ ret = Return(None)

\* profile k can be read, is of type vpn and names the virtual device
C19_Matches(k) ==
    /\ conns[k].ok
    /\ conns[k].type = "vpn"
    /\ conns[k].vpn = VIRTUAL_DEVICE_NAME

\* C19: get_vpn_interface returns the first profile in iteration order of
\* type vpn whose vpn.data.dev is the virtual device name. A profile whose
\* settings cannot be read and a vpn profile without the device-name key
\* are passed over, the scan goes on, and the call does not raise; the empty
\* result is returned only when no profile of the snapshot matches.
C19_SkipsAndFindsFirst ==
    (call.fn = "get_vpn_interface" /\ Finished) =>
        /\ Returned
        /\ IF \E k \in DOMAIN conns : C19_Matches(k)
           THEN /\ ret.val.iface \in DOMAIN conns
                /\ C19_Matches(ret.val.iface)
                /\ \A b \in 1..(ret.val.iface - 1) : ~C19_Matches(b)
                /\ ret.val.all_settings =
                       IF call.return_properties THEN ret.val.iface ELSE Absent
           ELSE ret.val = NoInterface

\* The first profile is a vpn profile without vpn.data.dev; the second one
\* is found.
C19_Witness ==
    /\ call.fn = "get_vpn_interface"
    /\ Len(conns) = 2
    /\ conns[1].ok /\ conns[1].type = "vpn" /\ conns[1].vpn = "nodev"
    /\ C19_Matches(2)
    /\ Returned /\ ret.val.iface = 2

\* the active connection asked about can be read, is a vpn and is activated
C20_Connected ==
    /\ ActiveReadable(call.active_conn)
    /\ actives[call.active_conn].Type = "vpn"
    /\ actives[call.active_conn].State = 2

\* C20: check_active_vpn_conn returns (True, settings of the profile) iff
\* the active connection's Type is vpn and its State is 2. In every other
\* case (another type, state 1 or any other state, or the read of the
\* properties failing with a DBusException) it returns (False, None) and
\* does not raise.
C20_VpnAndConnected ==
    (call.fn = "check_active_vpn_conn" /\ Finished) =>
        /\ ~C20_Connected => ret = Return(NotVpn)
        /\ Returned => (ret.val.is_vpn <=> C20_Connected)
        /\ (Returned /\ ret.val.is_vpn) =>
              ret.val.all_settings = actives[call.active_conn].Connection
        /\ (C20_Connected /\ SettingsReadable(actives[call.active_conn].Connection)) =>
              Returned

\* A vpn that is still being prepared (state 1) is not reported.
C20_Witness ==
    /\ call.fn = "check_active_vpn_conn"
    /\ ActiveReadable(call.active_conn)
    /\ actives[call.active_conn].Type = "vpn"
    /\ actives[call.active_conn].State = 1
    /\ ret = Return(NotVpn)

\* C21: when search_for_connection is called with is_active and
\* return_active_conn_path and finds a match, the active_conn_path of the
\* result is an active connection whose Connection is the settings path of
\* the matched profile, never another active connection such as one that
\* carries the default route and comes earlier in the list.
C21_ActivePathOfMatchedProfile ==
    ( /\ call.fn = "search_for_connection"
      /\ call.is_active /\ call.return_active_conn_path
      /\ call.return_settings_path
      /\ Returned /\ ret.val # EmptyResult ) =>
        /\ ret.val.active_conn_path \in DOMAIN actives
        /\ actives[ret.val.active_conn_path].Connection = ret.val.settings_path

====
